---------------------------- MODULE Spec2Model ----------------------------
(***************************************************************************)
(* A model of bpg, the border-producing gizmo.                             *)
(*                                                                         *)
(*   src/src/process.rs   proximity, approximation, adjust, add_border and *)
(*                        process_and_save_local                           *)
(*   src/src/main.rs      main, process_file and report_result: the batch  *)
(*                                                                         *)
(* Ratio<u32> (crate num-rational) is modelled by what its operations do:  *)
(* Ratio::new reduces by the gcd, * cancels crosswise before multiplying,  *)
(* - goes through the least common denominator, and the order compares     *)
(* integer parts and then the reciprocals of the fractional parts.         *)
(*                                                                         *)
(* u32 arithmetic: an unsigned subtraction whose result would be negative  *)
(* panics in a build with overflow checks and wraps modulo U32_MAX + 1 in  *)
(* a build without them; overflow_checks is the build's choice.  The sums  *)
(* and products of the model stay far below U32_MAX (see MaxDim and        *)
(* MaxBorder), so they never overflow here.                                *)
(***************************************************************************)
EXTENDS Integers, Sequences, FiniteSets, TLC

VARIABLES
    pc,                 \* where the call under analysis stands
    arg_a, arg_b,       \* proximity(a, b): the two ratios
    dims,               \* (width, height) of the image or of the call
    border,             \* border size in pixels
    force_ratio,        \* Option<Ratio<u32>>: None or a ratio
    force_orientation,  \* bool
    options,            \* approximation's options: a sequence of ratios
    parts,              \* the parallel reduce: partial results, left to right
    identities,         \* how many identity elements the reduce has created
    final_ratio,        \* process_and_save_local's final_ratio
    final_dims,         \* adjust's result
    image,              \* the decoded image: width, height, pixels
    canvas,             \* add_border's background buffer
    ret,                \* the value the call returned
    overflow_checks,    \* the build panics on u32 overflow (TRUE) or wraps
    args_files,         \* main: args.files, in command line order
    files,              \* main: the HashSet of paths
    disk,               \* what is at each path: an image, or a way to fail
    task,               \* main: each per-file task's position
    results,            \* main: the collected (path, result) pairs
    printed,            \* main: the lines report_result has printed
    main_pc             \* main's own position

vars == << pc, arg_a, arg_b, dims, border, force_ratio, force_orientation,
           options, parts, identities, final_ratio, final_dims, image,
           canvas, ret, overflow_checks, args_files, files, disk, task,
           results, printed, main_pc >>

-----------------------------------------------------------------------------
(* Bounds of the model.                                                    *)

MaxTerm == 6

MaxDim == 5

MaxBorder == 1

MaxOptions == 3

MaxIdentities == 1

MaxImage == 2

MaxCanvas == 3

MaxArgs == 3

-----------------------------------------------------------------------------
(* num::rational::Ratio<u32> and num::Integer, as the calls in process.rs  *)
(* use them.                                                               *)

RECURSIVE Gcd(_, _)
Gcd(x, y) == IF y = 0 THEN x ELSE Gcd(y, x % y)

Lcm(x, y) == IF x = 0 \/ y = 0 THEN 0 ELSE x * (y \div Gcd(x, y))

\* Ratio::new(numer, denom): panics when denom = 0 (the callers test that
\* first), otherwise the fraction in lowest terms; 0/d becomes 0/1.
Ratio_new(n, d) ==
    LET g == Gcd(n, d) IN [numer |-> n \div g, denom |-> d \div g]

Ratio_from_integer(t) == [numer |-> t, denom |-> 1]

\* Ratio::recip: panics on a zero numerator (the callers test that first).
recip(r) == [numer |-> r.denom, denom |-> r.numer]

\* Mul for Ratio: cancel crosswise, multiply, reduce.
Ratio_mul(x, y) ==
    LET gcd_ad == Gcd(x.numer, y.denom)
        gcd_bc == Gcd(x.denom, y.numer)
    IN  Ratio_new((x.numer \div gcd_ad) * (y.numer \div gcd_bc),
                  (x.denom \div gcd_bc) * (y.denom \div gcd_ad))

\* u32::MAX is 2^32 - 1, which TLC's integers (at most 2^31 - 1) cannot hold.
\* The model's stand-in is TLC's largest integer: every other number of the
\* model is below 2^31 - 1 as it is below 2^32 - 1, so each comparison with
\* it comes out as the comparison with u32::MAX does, and a wrapped
\* difference is as far above every size of the model as it is in the code.
U32_MAX == 2147483647

\* u32 subtraction as a build without overflow checks computes it; a build
\* with them panics when x < y.
wrapping_sub(x, y) == IF x >= y THEN x - y ELSE U32_MAX - (y - x - 1)

\* Sub for Ratio<u32>: the numerators over the least common denominator.
\* sub_numers gives the two numerators; the u32 subtraction lhs - rhs
\* underflows when lhs < rhs.
sub_numers(x, y) ==
    IF x.denom = y.denom
    THEN [lhs |-> x.numer, rhs |-> y.numer, denom |-> y.denom]
    ELSE LET lcm == Lcm(x.denom, y.denom)
         IN  [lhs |-> x.numer * (lcm \div x.denom),
              rhs |-> y.numer * (lcm \div y.denom),
              denom |-> lcm]

sub_underflows(x, y) == sub_numers(x, y).lhs < sub_numers(x, y).rhs

Ratio_sub(x, y) ==
    LET s == sub_numers(x, y) IN Ratio_new(wrapping_sub(s.lhs, s.rhs), s.denom)

\* Ord for Ratio: equal denominators compare numerators, equal numerators
\* compare denominators in reverse, otherwise the integer parts decide and,
\* when they agree, the reciprocals of the fractional parts in reverse.
Reverse(o) ==
    CASE o = "Less" -> "Greater"
      [] o = "Greater" -> "Less"
      [] OTHER -> "Equal"

IntCmp(x, y) == IF x < y THEN "Less" ELSE IF x > y THEN "Greater" ELSE "Equal"

RECURSIVE Ratio_cmp(_, _)
Ratio_cmp(x, y) ==
    IF x.denom = y.denom THEN IntCmp(x.numer, y.numer)
    ELSE IF x.numer = y.numer
    THEN (IF x.numer = 0 THEN "Equal" ELSE Reverse(IntCmp(x.denom, y.denom)))
    ELSE LET self_int  == x.numer \div x.denom
             self_rem  == x.numer % x.denom
             other_int == y.numer \div y.denom
             other_rem == y.numer % y.denom
         IN  IF self_int # other_int THEN IntCmp(self_int, other_int)
             ELSE IF self_rem = 0 /\ other_rem = 0 THEN "Equal"
             ELSE IF self_rem = 0 THEN "Less"
             ELSE IF other_rem = 0 THEN "Greater"
             ELSE Reverse(Ratio_cmp([numer |-> x.denom, denom |-> self_rem],
                                    [numer |-> y.denom, denom |-> other_rem]))

Ratio_lt(x, y) == Ratio_cmp(x, y) = "Less"

Ratio_gt(x, y) == Ratio_cmp(x, y) = "Greater"


-----------------------------------------------------------------------------
(* process.rs: proximity                                                   *)

one == Ratio_from_integer(1)

\* let check = a * b.recip();
proximity_check(x, y) == Ratio_mul(x, recip(y))

\* A variant with the two branches exchanged, for comparison.
proximity_operands_swapped(x, y) ==
    LET check == proximity_check(x, y)
    IN  IF Ratio_gt(check, one) THEN << one, check >> ELSE << check, one >>

\* if check > one { check - one } else { one - check }: the subtraction's
\* operands, minuend first.
proximity_operands(x, y) ==
    LET check == proximity_check(x, y)
    IN  IF Ratio_gt(check, one) THEN << check, one >> ELSE << one, check >>

proximity_underflows(x, y) ==
    sub_underflows(proximity_operands(x, y)[1], proximity_operands(x, y)[2])

proximity(x, y) ==
    Ratio_sub(proximity_operands(x, y)[1], proximity_operands(x, y)[2])

-----------------------------------------------------------------------------
(* Values of the variables a specification does not use.                   *)

NoImage == [width |-> 0, height |-> 0, px |-> << >>]

ProximityIdle == arg_a = << 0, 1 >> /\ arg_b = << 0, 1 >>

ApproxIdle == options = << >> /\ parts = << >> /\ identities = 0

LocalIdle ==
    /\ border = 0
    /\ force_ratio = << >>
    /\ force_orientation = FALSE
    /\ final_ratio = << >>
    /\ final_dims = << 0, 0 >>

ImageIdle == image = NoImage /\ canvas = NoImage

BatchIdle ==
    /\ args_files = << >>
    /\ files = {}
    /\ disk = << >>
    /\ task = << >>
    /\ results = {}
    /\ printed = {}
    /\ main_pc = "idle"

proximity_vars == << arg_a, arg_b >>

approx_vars == << options, parts, identities >>

local_vars ==
    << border, force_ratio, force_orientation, final_ratio, final_dims >>

image_vars == << image, canvas >>

batch_vars == << args_files, files, disk, task, results, printed, main_pc >>

-----------------------------------------------------------------------------
(* proximity(a, b) called as the unit tests call it: on Ratio::new(n, d)   *)
(* of two literals.                                                        *)

ProximityInit ==
    /\ pc = "call"
    /\ arg_a \in (0 .. MaxTerm) \X (1 .. MaxTerm)
    /\ arg_b \in (0 .. MaxTerm) \X (1 .. MaxTerm)
    /\ dims = << 0, 0 >>
    /\ ret = << >>
    /\ overflow_checks \in BOOLEAN
    /\ ApproxIdle /\ LocalIdle /\ ImageIdle /\ BatchIdle

\* process.rs 165-173.  b.recip() panics on a zero numerator; an underflow
\* of the u32 subtraction panics or wraps, as the build has it.
ProximityCall ==
    /\ pc = "call"
    /\ LET x == Ratio_new(arg_a[1], arg_a[2])
           y == Ratio_new(arg_b[1], arg_b[2])
       IN  IF y.numer = 0
           THEN pc' = "panic" /\ ret' = << "division by zero" >>
           ELSE IF proximity_underflows(x, y) /\ overflow_checks
           THEN /\ pc' = "panic"
                /\ ret' = << "attempt to subtract with overflow" >>
           ELSE pc' = "returned" /\ ret' = << proximity(x, y) >>
    /\ UNCHANGED << arg_a, arg_b, dims, overflow_checks, approx_vars,
                    local_vars, image_vars, batch_vars >>

ProximityNext == ProximityCall

SpecProximity == ProximityInit /\ [][ProximityNext]_vars

Abs(x) == IF x < 0 THEN -x ELSE x

\* C3: proximity(a, b) is the exact rational |a/b - 1| for ratios with
\* non-zero numerators: the call returns without a panic and its subtraction
\* does not underflow,
\* the result r satisfies r = |a.n*b.d - a.d*b.n| / (a.d*b.n), it is 0
\* exactly when a and b are equal as fractions, and it is not symmetric:
\* proximity(2/1, 4/1) = 1/2 while proximity(4/1, 2/1) = 1.
C3_ProximityExact ==
    (pc # "call" /\ arg_a[1] # 0 /\ arg_b[1] # 0) =>
        /\ pc = "returned"
        /\ ~proximity_underflows(Ratio_new(arg_a[1], arg_a[2]),
                                 Ratio_new(arg_b[1], arg_b[2]))
        /\ ret[1].numer * (arg_a[2] * arg_b[1])
              = Abs(arg_a[1] * arg_b[2] - arg_a[2] * arg_b[1]) * ret[1].denom
        /\ ret[1].denom > 0
        /\ (ret[1].numer = 0) <=> (arg_a[1] * arg_b[2] = arg_a[2] * arg_b[1])
        /\ (arg_a = << 2, 1 >> /\ arg_b = << 4, 1 >>)
              => ret[1] = [numer |-> 1, denom |-> 2]
        /\ (arg_a = << 4, 1 >> /\ arg_b = << 2, 1 >>)
              => ret[1] = [numer |-> 1, denom |-> 1]

\* proximity(4/6, 2/3) has returned 0: unequal literals, equal fractions.
C3_Witness ==
    /\ pc = "returned"
    /\ arg_a = << 4, 6 >> /\ arg_b = << 2, 3 >>
    /\ ret[1].numer = 0

-----------------------------------------------------------------------------
(* process.rs: approximation.  The rayon reduce is a machine of its own:   *)
(* parts holds the partial results in the order of the options; the reduce *)
(* may create an identity element anywhere and may combine any two         *)
(* neighbours, until one result is left.  Each item is (reference, ratio); *)
(* reference 0 is &ratio, the raw ratio of the dimensions, and reference i *)
(* is &options[i].                                                         *)

OptionPool ==
    { Ratio_new(p[1], p[2]) :
        p \in { << 1, 1 >>, << 1, 2 >>, << 3, 2 >>, << 4, 3 >> } }

RECURSIVE SeqsUpTo(_, _)
SeqsUpTo(S, n) ==
    IF n = 0 THEN { << >> }
    ELSE LET shorter == SeqsUpTo(S, n - 1)
         IN  shorter \cup { Append(q, x) : q \in shorter, x \in S }

\* let ratio = Ratio::new(dims.0, dims.1);
raw_ratio == Ratio_new(dims[1], dims[2])

\* A variant whose proximity is below every option's, for comparison.
identity_zero == [ref |-> 0, prox |-> Ratio_from_integer(0)]

\* || (&ratio, Ratio::from_integer(u32::MAX))
identity == [ref |-> 0, prox |-> Ratio_from_integer(U32_MAX)]

\* Variants for comparison: b.1 <= a.1, and b.1 > a.1.
reduce_op_le(x, y) == IF ~Ratio_gt(y.prox, x.prox) THEN y ELSE x

reduce_op_max(x, y) == IF Ratio_gt(y.prox, x.prox) THEN y ELSE x

\* |a, b| if b.1 < a.1 { b } else { a }
reduce_op(x, y) == IF Ratio_lt(y.prox, x.prox) THEN y ELSE x

\* .map(|option| (option, proximity(option, &ratio)))
mapped(opts) ==
    [i \in 1 .. Len(opts) |->
        [ref |-> i, prox |-> proximity(opts[i], raw_ratio)]]

\* The * of the result: the ratio a reference points to.
deref(r) == IF r = 0 THEN raw_ratio ELSE options[r]

InsertAt(q, k, x) == SubSeq(q, 1, k) \o << x >> \o SubSeq(q, k + 1, Len(q))

Combine(q, i) ==
    SubSeq(q, 1, i - 1) \o << reduce_op(q[i], q[i + 1]) >>
        \o SubSeq(q, i + 2, Len(q))

\* process.rs 140-143, with `opts` the options of the call.  Ratio::new
\* panics on a zero height; proximity's b.recip() panics on a zero width,
\* once there is an option to map.
ApproxStart(opts) ==
    /\ options' = opts
    /\ identities' = 0
    /\ IF dims[2] = 0
       THEN pc' = "panic" /\ ret' = << "denominator == 0" >> /\ parts' = << >>
       ELSE IF opts # << >> /\ dims[1] = 0
       THEN pc' = "panic" /\ ret' = << "division by zero" >> /\ parts' = << >>
       ELSE IF /\ overflow_checks
               /\ \E i \in 1 .. Len(opts) :
                     proximity_underflows(opts[i], raw_ratio)
       THEN /\ pc' = "panic"
            /\ ret' = << "attempt to subtract with overflow" >>
            /\ parts' = << >>
       ELSE pc' = "reduce" /\ parts' = mapped(opts) /\ UNCHANGED ret

\* process.rs 145: the reduce creates an identity element.
ReduceIdentity ==
    /\ pc = "reduce"
    /\ identities < MaxIdentities
    /\ \E k \in 0 .. Len(parts) : parts' = InsertAt(parts, k, identity)
    /\ identities' = identities + 1
    /\ UNCHANGED << pc, options, ret, dims, overflow_checks, proximity_vars,
                    local_vars, image_vars, batch_vars >>

\* process.rs 146-152: the reduce combines two neighbours.
ReduceOp ==
    /\ pc = "reduce"
    /\ \E i \in 1 .. Len(parts) - 1 : parts' = Combine(parts, i)
    /\ UNCHANGED << pc, options, identities, ret, dims, overflow_checks,
                    proximity_vars, local_vars, image_vars, batch_vars >>

-----------------------------------------------------------------------------
(* approximation(dims, options) called as the unit tests call it.          *)

ApproxInit ==
    /\ pc = "call"
    /\ dims \in (0 .. MaxDim) \X (0 .. MaxDim)
    /\ options \in SeqsUpTo(OptionPool, MaxOptions)
    /\ parts = << >>
    /\ identities = 0
    /\ ret = << >>
    /\ overflow_checks \in BOOLEAN
    /\ ProximityIdle /\ LocalIdle /\ ImageIdle /\ BatchIdle

ApproxCall ==
    /\ pc = "call"
    /\ ApproxStart(options)
    /\ UNCHANGED << dims, overflow_checks, proximity_vars, local_vars,
                    image_vars, batch_vars >>

\* process.rs 141 and 154: the reduce is down to one item; return what its
\* reference points to.
ApproxReturn ==
    /\ pc = "reduce"
    /\ Len(parts) = 1
    /\ pc' = "returned"
    /\ ret' = << deref(parts[1].ref) >>
    /\ UNCHANGED << options, parts, identities, dims, overflow_checks,
                    proximity_vars, local_vars, image_vars, batch_vars >>

ApproxNext == ApproxCall \/ ReduceIdentity \/ ReduceOp \/ ApproxReturn

SpecApprox == ApproxInit /\ [][ApproxNext]_vars

\* The claims' own measure, by cross-multiplication: option c = n/d is at
\* |n*h - d*w| / (d*w) from w/h.
DistNum(c) == Abs(c.numer * dims[2] - c.denom * dims[1])

DistDen(c) == c.denom * dims[1]

Closer(c1, c2) == DistNum(c1) * DistDen(c2) < DistNum(c2) * DistDen(c1)

IsFirstMin(i) ==
    /\ \A j \in 1 .. Len(options) : ~Closer(options[j], options[i])
    /\ \A j \in 1 .. i - 1 : Closer(options[i], options[j])

\* C1: ties go to the smallest index, whatever the reduction tree: when the
\* reduce is down to one item and there are options, that item refers to
\* the first option of minimum proximity, and the call returns that option.
C1_FirstMinWins ==
    (pc \in {"reduce", "returned"} /\ Len(parts) = 1 /\ options # << >>) =>
        /\ parts[1].ref \in 1 .. Len(options)
        /\ IsFirstMin(parts[1].ref)
        /\ pc = "returned" => ret[1] = options[parts[1].ref]

\* A call has returned the first of two options tied for the minimum, after
\* the reduce created an identity element.
C1_Witness ==
    /\ pc = "returned"
    /\ identities > 0
    /\ \E i, j \in 1 .. Len(options) :
          /\ i < j
          /\ options[i] # options[j]
          /\ ~Closer(options[i], options[j])
          /\ ~Closer(options[j], options[i])
          /\ IsFirstMin(i)
          /\ parts[1].ref = i

\* What C2 promises of a call that has gone past its first step: it has not
\* panicked; with no options it returns width/height in lowest terms; with
\* options it returns one of them, none of the others being closer, and the
\* item left by the reduce is never the identity (reference 0).
C2_Promise ==
    /\ pc # "panic"
    /\ (pc = "returned" /\ options = << >>) =>
          /\ ret[1].numer * dims[2] = ret[1].denom * dims[1]
          /\ Gcd(ret[1].numer, ret[1].denom) = 1
    /\ (pc = "returned" /\ options # << >>) =>
          /\ parts[1].ref # 0
          /\ \E i \in 1 .. Len(options) :
                /\ ret[1] = options[i]
                /\ \A j \in 1 .. Len(options) : ~Closer(options[j], options[i])

\* C2 as claimed: the promise for every dims with height > 0.
C2_AsClaimed == (pc # "call" /\ dims[2] > 0) => C2_Promise

\* C2 as amended: the promise for every dims with height > 0 and, when there
\* is an option, width > 0 (proximity divides by the raw ratio, and a zero
\* width with an option to map panics in b.recip()).
C2_MinimumMember ==
    (pc # "call" /\ dims[2] > 0 /\ (options = << >> \/ dims[1] > 0))
        => C2_Promise

\* A call with two options of different proximity has returned the second,
\* closer one although the reduce created an identity element.
C2_Witness ==
    /\ pc = "returned"
    /\ identities > 0
    /\ Len(options) >= 2
    /\ Closer(options[2], options[1])
    /\ parts[1].ref = 2
    /\ ret[1] = options[2]

-----------------------------------------------------------------------------
(* process.rs: adjust                                                      *)

\* The catalog of process.rs, in its order.
COMMON_RATIOS ==
    << Ratio_new(1, 1), Ratio_new(3, 2), Ratio_new(2, 3), Ratio_new(4, 3),
       Ratio_new(3, 4), Ratio_new(4, 5), Ratio_new(5, 4), Ratio_new(16, 9),
       Ratio_new(9, 16) >>

\* A variant that adds the border a second time before deriving the other
\* dimension, for comparison.
adjust_twice(d, b, ratio) ==
    IF d[1] > d[2]
    THEN LET new_w == d[1] + b
             new_h == ((new_w + b) * ratio.denom) \div ratio.numer
         IN  << new_w, new_h >>
    ELSE LET new_h == d[2] + b
             new_w == ((new_h + b) * ratio.numer) \div ratio.denom
         IN  << new_w, new_h >>

\* process.rs 113-127
adjust(d, b, ratio) ==
    IF d[1] > d[2]
    THEN LET new_w == d[1] + b
             new_h == (new_w * ratio.denom) \div ratio.numer
         IN  << new_w, new_h >>
    ELSE LET new_h == d[2] + b
             new_w == (new_h * ratio.numer) \div ratio.denom
         IN  << new_w, new_h >>

\* The u32 division of the branch adjust takes divides by zero.
adjust_divides_by_zero(d, ratio) ==
    IF d[1] > d[2] THEN ratio.numer = 0 ELSE ratio.denom = 0

\* The ratios adjust is called with: the catalog, the two of test_adjust,
\* and 0/1.
AdjustPool ==
    { COMMON_RATIOS[i] : i \in 1 .. Len(COMMON_RATIOS) }
        \cup { Ratio_new(1, 10), Ratio_new(10, 1), Ratio_new(0, 1) }

AdjustInit ==
    /\ pc = "call"
    /\ dims \in (0 .. MaxDim) \X (0 .. MaxDim)
    /\ border \in 0 .. MaxBorder
    /\ final_ratio \in { << r >> : r \in AdjustPool }
    /\ force_ratio = << >>
    /\ force_orientation = FALSE
    /\ final_dims = << 0, 0 >>
    /\ ret = << >>
    /\ overflow_checks \in BOOLEAN
    /\ ProximityIdle /\ ApproxIdle /\ ImageIdle /\ BatchIdle

\* process.rs 113-127.
AdjustCall ==
    /\ pc = "call"
    /\ IF adjust_divides_by_zero(dims, final_ratio[1])
       THEN /\ pc' = "panic"
            /\ ret' = << "attempt to divide by zero" >>
            /\ UNCHANGED final_dims
       ELSE /\ pc' = "returned"
            /\ final_dims' = adjust(dims, border, final_ratio[1])
            /\ ret' = << final_dims' >>
    /\ UNCHANGED << dims, border, final_ratio, force_ratio, force_orientation,
                    overflow_checks, proximity_vars, approx_vars, image_vars,
                    batch_vars >>

AdjustNext == AdjustCall

SpecAdjust == AdjustInit /\ [][AdjustNext]_vars

\* q is the integer quotient floor(x / y).
IsFloorDiv(q, x, y) == q * y <= x /\ x < (q + 1) * y

\* C4: the border goes once, to the larger dimension, and the other is
\* derived: for width > height the result is (width + border,
\* floor((width + border) * denom / numer)), otherwise (width = height
\* included) it is (floor((height + border) * numer / denom), height +
\* border).
C4_BorderOnLargerDimension ==
    pc = "returned" =>
        LET W == ret[1][1]
            H == ret[1][2]
            r == final_ratio[1]
        IN  IF dims[1] > dims[2]
            THEN /\ W = dims[1] + border
                 /\ IsFloorDiv(H, (dims[1] + border) * r.denom, r.numer)
            ELSE /\ H = dims[2] + border
                 /\ IsFloorDiv(W, (dims[2] + border) * r.numer, r.denom)

\* adjust has returned for a square input and a ratio other than 1/1 with a
\* border: the height took the border, the width was derived.
C4_Witness ==
    /\ pc = "returned"
    /\ dims = << 3, 3 >> /\ border = 1
    /\ final_ratio[1] = Ratio_new(3, 4)
    /\ ret[1] = << 3, 4 >>

-----------------------------------------------------------------------------
(* process.rs: add_border.  An image is its size and its pixels, one RGBA  *)
(* quadruple at each (x, y) with 0 <= x < width and 0 <= y < height.       *)

white == << 255, 255, 255, 255 >>

\* base_pixel of the tests, a second opaque colour, and the transparent
\* pixel of test_add_border_transparent_base.
base_pixel == << 0, 0, 0, 255 >>

red_pixel == << 255, 0, 0, 255 >>

clear_pixel == << 0, 0, 0, 0 >>

Coords(w, h) == (0 .. w - 1) \X (0 .. h - 1)

\* RgbaImage::from_pixel(width, height, pixel)
from_pixel(w, h, pixel) ==
    [width |-> w, height |-> h, px |-> [c \in Coords(w, h) |-> pixel]]

\* Pixel::blend of image's Rgba<u8>, for the alphas of the model: a
\* transparent pixel leaves the one below, an opaque pixel replaces it.
blend(below, above) == IF above[4] = 0 THEN below ELSE above

\* imageops::overlay(bottom, top, x, y): every pixel of top that lands
\* inside bottom is blended onto the pixel it lands on.
overlay(bottom, top, x, y) ==
    [bottom EXCEPT !.px =
        [c \in Coords(bottom.width, bottom.height) |->
            IF /\ x <= c[1] /\ c[1] < x + top.width
               /\ y <= c[2] /\ c[2] < y + top.height
            THEN blend(bottom.px[c], top.px[<< c[1] - x, c[2] - y >>])
            ELSE bottom.px[c]]]

\* A variant whose offsets round up, for comparison.
add_border_ceil(img, fd) ==
    LET background == from_pixel(fd[1], fd[2], white)
        x_pad == wrapping_sub(fd[1], img.width)
        y_pad == wrapping_sub(fd[2], img.height)
        x_offset == (x_pad \div 2) + (x_pad % 2)
        y_offset == (y_pad \div 2) + (y_pad % 2)
    IN  overlay(background, img, x_offset, y_offset)

\* process.rs 92-99
add_border(img, fd) ==
    LET background == from_pixel(fd[1], fd[2], white)
        x_offset == wrapping_sub(fd[1], img.width) \div 2
        y_offset == wrapping_sub(fd[2], img.height) \div 2
    IN  overlay(background, img, x_offset, y_offset)

\* One of the two u32 subtractions of add_border underflows.
add_border_underflows(img, fd) == fd[1] < img.width \/ fd[2] < img.height

\* Images of the model: every pattern of the two opaque colours, and the
\* all-transparent image, at each size up to MaxImage.
Images ==
    UNION { { [width |-> w, height |-> h, px |-> f] :
                f \in [Coords(w, h) -> {base_pixel, red_pixel}] }
              \cup { from_pixel(w, h, clear_pixel) } :
            w \in 1 .. MaxImage, h \in 1 .. MaxImage }

BorderInit ==
    /\ pc = "call"
    /\ image \in Images
    /\ final_dims \in (0 .. MaxCanvas) \X (0 .. MaxCanvas)
    /\ canvas = NoImage
    /\ dims = << 0, 0 >>
    /\ border = 0 /\ force_ratio = << >> /\ force_orientation = FALSE
    /\ final_ratio = << >>
    /\ ret = << >>
    /\ overflow_checks \in BOOLEAN
    /\ ProximityIdle /\ ApproxIdle /\ BatchIdle

\* process.rs 92-99.
AddBorderCall ==
    /\ pc = "call"
    /\ IF add_border_underflows(image, final_dims) /\ overflow_checks
       THEN /\ pc' = "panic"
            /\ ret' = << "attempt to subtract with overflow" >>
            /\ UNCHANGED canvas
       ELSE /\ pc' = "returned"
            /\ canvas' = add_border(image, final_dims)
            /\ ret' = << "DynamicImage::ImageRgba8" >>
    /\ UNCHANGED << image, final_dims, dims, border, force_ratio,
                    force_orientation, final_ratio, overflow_checks,
                    proximity_vars, approx_vars, batch_vars >>

BorderNext == AddBorderCall

SpecBorder == BorderInit /\ [][BorderNext]_vars

IsOpaque(img) == \A c \in DOMAIN img.px : img.px[c][4] = 255

\* The state part of C8, for an opaque image that fits the canvas.
C8_Centred ==
    (pc = "returned" /\ IsOpaque(image)
        /\ final_dims[1] >= image.width /\ final_dims[2] >= image.height) =>
        \E xOff \in 0 .. final_dims[1], yOff \in 0 .. final_dims[2] :
            /\ IsFloorDiv(xOff, final_dims[1] - image.width, 2)
            /\ IsFloorDiv(yOff, final_dims[2] - image.height, 2)
            /\ xOff <= final_dims[1] - image.width - xOff
            /\ final_dims[1] - image.width - xOff <= xOff + 1
            /\ yOff <= final_dims[2] - image.height - yOff
            /\ final_dims[2] - image.height - yOff <= yOff + 1
            /\ canvas.width = final_dims[1] /\ canvas.height = final_dims[2]
            /\ DOMAIN canvas.px = Coords(final_dims[1], final_dims[2])
            /\ \A c \in Coords(final_dims[1], final_dims[2]) :
                  canvas.px[c] =
                      IF /\ xOff <= c[1] /\ c[1] < xOff + image.width
                         /\ yOff <= c[2] /\ c[2] < yOff + image.height
                      THEN image.px[<< c[1] - xOff, c[2] - yOff >>]
                      ELSE white

\* C8: add_border(image, (W, H)) for an opaque w x h image with W >= w and
\* H >= h returns the W x H canvas that is white except for the image, put
\* at (floor((W - w) / 2), floor((H - h) / 2)), so the padding before the
\* image is the padding after it or one pixel less; and no step changes the
\* input image.
C8_AddBorder == []C8_Centred /\ [][image' = image]_vars

\* A 2 x 1 image of two colours sits in a 3 x 2 canvas: nothing before it,
\* one white column and one white row after it.
C8_Witness ==
    /\ pc = "returned"
    /\ image.width = 2 /\ image.height = 1
    /\ image.px[<< 0, 0 >>] = base_pixel /\ image.px[<< 1, 0 >>] = red_pixel
    /\ final_dims = << 3, 2 >>
    /\ canvas.px[<< 0, 0 >>] = base_pixel /\ canvas.px[<< 1, 0 >>] = red_pixel
    /\ canvas.px[<< 2, 0 >>] = white /\ canvas.px[<< 0, 1 >>] = white

-----------------------------------------------------------------------------
(* process.rs: process_and_save_local, one call on one file.  disk is what *)
(* the path holds: an image of some size, nothing that opens ("missing"),  *)
(* or bytes that do not decode ("corrupt").                                *)

\* Ratios the user may force (-r), 0/1 among them: FromStr accepts it.
ForcePool ==
    { Ratio_new(3, 2), Ratio_new(2, 3), Ratio_new(2, 1), Ratio_new(1, 2),
      Ratio_new(1, 1), Ratio_new(0, 1) }

DiskImages ==
    { [kind |-> "image", width |-> w, height |-> h] :
        w \in 1 .. MaxDim, h \in 1 .. MaxDim }

DiskFailures ==
    { [kind |-> k, width |-> 0, height |-> 0] : k \in {"missing", "corrupt"} }

LocalInit ==
    /\ pc = "call"
    /\ disk \in DiskImages \cup DiskFailures
    /\ border \in 0 .. MaxBorder
    /\ force_ratio \in { << >> } \cup { << r >> : r \in ForcePool }
    /\ force_orientation \in BOOLEAN
    /\ overflow_checks \in BOOLEAN
    /\ dims = << 0, 0 >>
    /\ final_ratio = << >>
    /\ final_dims = << 0, 0 >>
    /\ ret = << >>
    /\ args_files = << >> /\ files = {} /\ task = << >>
    /\ results = {} /\ printed = {} /\ main_pc = "idle"
    /\ ProximityIdle /\ ApproxIdle /\ ImageIdle

local_frame == << arg_a, arg_b, args_files, files, disk, task, results,
                  printed, main_pc, border, force_ratio, force_orientation,
                  overflow_checks >>

\* process.rs 49: Reader::open(file)?.decode()?
LocalOpenDecode ==
    /\ pc = "call"
    /\ IF disk.kind = "image"
       THEN /\ pc' = "decoded"
            /\ image' = from_pixel(disk.width, disk.height, base_pixel)
            /\ dims' = << disk.width, disk.height >>
            /\ UNCHANGED ret
       ELSE /\ pc' = "returned"
            /\ ret' = << "Err", disk.kind >>
            /\ UNCHANGED << image, dims >>
    /\ UNCHANGED << local_frame, approx_vars, final_ratio, final_dims,
                    canvas >>

\* A variant with the reciprocal first, for comparison.
forced_options_reversed(ratio) == << recip(ratio), ratio >>

\* process.rs 55: &[ratio, ratio.recip()]
forced_options(ratio) == << ratio, recip(ratio) >>

\* process.rs 50-59, up to the call of approximation.  ratio.recip() panics
\* on 0/1.
LocalMatch ==
    /\ pc = "decoded"
    /\ IF force_ratio # << >> /\ force_orientation
       THEN /\ final_ratio' = force_ratio
            /\ pc' = "adjust"
            /\ UNCHANGED << approx_vars, ret >>
       ELSE IF force_ratio # << >> /\ force_ratio[1].numer = 0
       THEN /\ pc' = "panic"
            /\ ret' = << "division by zero" >>
            /\ UNCHANGED << approx_vars, final_ratio >>
       ELSE /\ ApproxStart(IF force_ratio # << >>
                           THEN forced_options(force_ratio[1])
                           ELSE COMMON_RATIOS)
            /\ UNCHANGED final_ratio
    /\ UNCHANGED << local_frame, image, dims, final_dims, canvas >>

\* process.rs 55 and 58: approximation returns into final_ratio.
LocalFinalRatio ==
    /\ pc = "reduce"
    /\ Len(parts) = 1
    /\ final_ratio' = << deref(parts[1].ref) >>
    /\ pc' = "adjust"
    /\ UNCHANGED << local_frame, approx_vars, image, dims, final_dims, canvas,
                    ret >>

\* process.rs 60: adjust(image.dimensions(), border, final_ratio)
LocalAdjust ==
    /\ pc = "adjust"
    /\ IF adjust_divides_by_zero(dims, final_ratio[1])
       THEN /\ pc' = "panic"
            /\ ret' = << "attempt to divide by zero" >>
            /\ UNCHANGED final_dims
       ELSE /\ pc' = "add_border"
            /\ final_dims' = adjust(dims, border, final_ratio[1])
            /\ UNCHANGED ret
    /\ UNCHANGED << local_frame, approx_vars, image, dims, final_ratio,
                    canvas >>

\* process.rs 60: add_border(&image, ...)
LocalAddBorder ==
    /\ pc = "add_border"
    /\ IF add_border_underflows(image, final_dims) /\ overflow_checks
       THEN /\ pc' = "panic"
            /\ ret' = << "attempt to subtract with overflow" >>
            /\ UNCHANGED canvas
       ELSE /\ pc' = "save"
            /\ canvas' = add_border(image, final_dims)
            /\ UNCHANGED ret
    /\ UNCHANGED << local_frame, approx_vars, image, dims, final_ratio,
                    final_dims >>

\* process.rs 60: .save(file_name(file)), which succeeds or fails.
LocalSave ==
    /\ pc = "save"
    /\ pc' = "returned"
    /\ \E r \in { << "Ok" >>, << "Err", "save" >> } : ret' = r
    /\ UNCHANGED << local_frame, approx_vars, image, dims, final_ratio,
                    final_dims, canvas >>

LocalNext ==
    \/ LocalOpenDecode
    \/ LocalMatch
    \/ ReduceIdentity
    \/ ReduceOp
    \/ LocalFinalRatio
    \/ LocalAdjust
    \/ LocalAddBorder
    \/ LocalSave

SpecLocal == LocalInit /\ [][LocalNext]_vars

\* i is the first index of opts whose ratio is closest to the image's.
IsFirstMinOf(opts, i) ==
    /\ \A j \in 1 .. Len(opts) : ~Closer(opts[j], opts[i])
    /\ \A j \in 1 .. i - 1 : Closer(opts[i], opts[j])

\* C5: once final_ratio is set, it is the forced ratio r itself when the
\* orientation is forced; the closer of r and 1/r to width/height, r on a
\* tie, when it is not; and the first closest entry of COMMON_RATIOS when no
\* ratio is forced.
C5_RatioSelection ==
    final_ratio # << >> =>
        IF force_ratio # << >> /\ force_orientation
        THEN final_ratio = force_ratio
        ELSE IF force_ratio # << >>
        THEN LET r == force_ratio[1]
                 inverse == [numer |-> r.denom, denom |-> r.numer]
             IN  /\ options = << r, inverse >>
                 /\ final_ratio[1] = IF Closer(inverse, r) THEN inverse ELSE r
        ELSE /\ options = COMMON_RATIOS
             /\ \E i \in 1 .. Len(COMMON_RATIOS) :
                   /\ IsFirstMinOf(COMMON_RATIOS, i)
                   /\ final_ratio[1] = COMMON_RATIOS[i]

\* A 5 x 4 image with 1/2 forced and the orientation free: 1/2 and 2/1 are
\* both 3/5 from 5/4, and the forced 1/2 won the tie.
C5_Witness ==
    /\ pc = "returned"
    /\ dims = << 5, 4 >>
    /\ force_ratio = << Ratio_new(1, 2) >> /\ ~force_orientation
    /\ ~Closer(Ratio_new(1, 2), Ratio_new(2, 1))
    /\ ~Closer(Ratio_new(2, 1), Ratio_new(1, 2))
    /\ final_ratio = << Ratio_new(1, 2) >>

\* C9: with no ratio forced, a landscape image gets a ratio >= 1 and a
\* portrait image a ratio <= 1.
C9_OrientationKept ==
    (final_ratio # << >> /\ force_ratio = << >>) =>
        /\ dims[1] > dims[2] => final_ratio[1].numer >= final_ratio[1].denom
        /\ dims[1] < dims[2] => final_ratio[1].numer <= final_ratio[1].denom

\* A 5 x 3 image, which is no catalog ratio, got 16/9.
C9_Witness ==
    /\ final_ratio = << Ratio_new(16, 9) >>
    /\ force_ratio = << >>
    /\ dims = << 5, 3 >>

\* C10: with no ratio forced, the canvas adjust computes holds the image:
\* final width >= width and final height >= height, so add_border's two
\* subtractions do not underflow.
C10_CanvasHoldsImage ==
    (force_ratio = << >> /\ pc \in {"add_border", "save", "returned", "panic"}
        /\ final_ratio # << >>) =>
        /\ final_dims[1] >= dims[1]
        /\ final_dims[2] >= dims[2]
        /\ ~add_border_underflows(image, final_dims)

-----------------------------------------------------------------------------
(* main.rs: f32.  A float is [m, e], the number m / 2^e, with m = 0 or     *)
(* 2^23 <= m < 2^24 (24 significant bits); an operation gives the float    *)
(* nearest to its exact result, a tie going to the even m.                 *)

Pow2(k) == 2 ^ k

f32_zero == [m |-> 0, e |-> 0]

f32_one == [m |-> Pow2(23), e |-> 23]

\* f32::MAX = (2^24 - 1) * 2^104
f32_MAX == [m |-> Pow2(24) - 1, e |-> -104]

\* q + 1 or q, as the remainder rem of a division by d is above or below
\* d / 2 (at d / 2: to the even one), renormalised if the carry reaches 2^24.
f32_nearest(q, rem, d, e) ==
    LET up == 2 * rem > d \/ (2 * rem = d /\ q % 2 = 1)
        r  == IF up THEN q + 1 ELSE q
    IN  IF r = Pow2(24) THEN [m |-> Pow2(23), e |-> e - 1]
                        ELSE [m |-> r, e |-> e]

RECURSIVE ExcessBits(_)
ExcessBits(t) == IF t < Pow2(24) THEN 0 ELSE 1 + ExcessBits(t \div 2)

\* The float nearest to t / 2^e, for an integer t >= 0.
RECURSIVE f32_normalize(_, _)
f32_normalize(t, e) ==
    IF t = 0 THEN f32_zero
    ELSE IF t < Pow2(23) THEN f32_normalize(2 * t, e + 1)
    ELSE LET k == ExcessBits(t)
         IN  f32_nearest(t \div Pow2(k), t % Pow2(k), Pow2(k), e - k)

\* The least e with t * 2^e / d >= 2^23.
RECURSIVE DivExp(_, _, _)
DivExp(t, d, e) ==
    IF t \div d >= Pow2(23) THEN e ELSE DivExp(2 * t, d, e + 1)

\* n as f32 / d as f32, for integers below 2^24, which convert exactly.
f32_div(n, d) ==
    IF n = 0 THEN f32_zero
    ELSE LET e == DivExp(n, d, 0)
             t == n * Pow2(e)
         IN  f32_nearest(t \div d, t % d, d, e)

\* (x - 1.0).abs(), for 0 <= x < 2^24
f32_sub_one_abs(x) ==
    IF x.m = 0 THEN f32_one
    ELSE IF x.e <= 23 THEN f32_normalize(x.m - Pow2(x.e), x.e)
    ELSE f32_normalize(Pow2(x.e) - x.m, x.e)

\* x < y, for floats >= 0
f32_lt(x, y) ==
    IF x.m = 0 THEN y.m > 0
    ELSE IF y.m = 0 THEN FALSE
    ELSE x.e > y.e \/ (x.e = y.e /\ x.m < y.m)

-----------------------------------------------------------------------------
(* main.rs: process_file                                                   *)

\* The catalog of main.rs, in its order.
main_COMMON_RATIOS ==
    << Ratio_new(1, 1), Ratio_new(3, 2), Ratio_new(2, 3), Ratio_new(4, 3),
       Ratio_new(3, 4), Ratio_new(16, 9), Ratio_new(9, 16) >>

\* main.rs 61-65: (*cr, proximity)
main_item(cr, image_ratio) ==
    LET check == Ratio_mul(cr, recip(image_ratio))
    IN  [ratio |-> cr,
         prox  |-> f32_sub_one_abs(f32_div(check.numer, check.denom))]

\* main.rs 67: the identity of the reduce
main_identity == [ratio |-> Ratio_from_integer(U32_MAX), prox |-> f32_MAX]

\* main.rs 68-74
main_reduce_op(x, y) == IF f32_lt(y.prox, x.prox) THEN y ELSE x

\* main.rs 59-75: the reduce, folded from the left.  The operation keeps
\* the leftmost least item, so every grouping gives this result.
RECURSIVE main_reduce(_, _, _)
main_reduce(acc, image_ratio, i) ==
    IF i > Len(main_COMMON_RATIOS) THEN acc
    ELSE main_reduce(
             main_reduce_op(acc, main_item(main_COMMON_RATIOS[i], image_ratio)),
             image_ratio, i + 1)

best_ratio(w, h) == main_reduce(main_identity, Ratio_new(w, h), 1).ratio

\* main.rs 76-87: (new_w, new_h)
new_dims(w, h, b) ==
    LET best == best_ratio(w, h)
    IN  IF w > h
        THEN LET new_w == w + b
                 new_h == (new_w * best.denom) \div best.numer
             IN  << new_w, new_h >>
        ELSE LET new_h == h + b
                 new_w == (new_h * best.numer) \div best.denom
             IN  << new_w, new_h >>

\* main.rs 89-90: new_w - w or new_h - h underflows.
offsets_underflow(w, h, b) ==
    LET new == new_dims(w, h, b) IN new[1] < w \/ new[2] < h

-----------------------------------------------------------------------------
(* main.rs: main.  Each path of the HashSet gets one task; a task opens    *)
(* and decodes its file, then computes and saves.  A task is << "queued" >>,*)
(* << "decoded" >>, or finished: << "Ok" >>, << "Err", step >> or          *)
(* << "panicked" >>.                                                       *)

PathPool == {"a.png", "b.png", "dir/a.png"}

BatchDisk ==
    { [kind |-> "unreadable", width |-> 0, height |-> 0],
      [kind |-> "image", width |-> 2, height |-> 2],
      [kind |-> "image", width |-> 5, height |-> 3] }

Range(q) == { q[i] : i \in DOMAIN q }

BatchInit ==
    /\ main_pc = "parse"
    /\ args_files \in SeqsUpTo(PathPool, MaxArgs) \ { << >> }
    /\ disk \in [PathPool -> BatchDisk]
    /\ border \in 0 .. MaxBorder
    /\ overflow_checks \in BOOLEAN
    /\ files = {}
    /\ task = << >>
    /\ results = {}
    /\ printed = {}
    /\ pc = "main"
    /\ dims = << 0, 0 >>
    /\ force_ratio = << >> /\ force_orientation = FALSE
    /\ final_ratio = << >> /\ final_dims = << 0, 0 >>
    /\ ret = << >>
    /\ ProximityIdle /\ ApproxIdle /\ ImageIdle

batch_frame == << pc, arg_a, arg_b, dims, border, force_ratio,
                  force_orientation, options, parts, identities, final_ratio,
                  final_dims, image, canvas, ret, overflow_checks, args_files,
                  disk >>

\* main.rs 32-36: the paths go into the HashSet, duplicates collapsing.
MainParExtend ==
    /\ main_pc = "parse"
    /\ files' = Range(args_files)
    /\ task' = [f \in Range(args_files) |-> << "queued" >>]
    /\ main_pc' = "map"
    /\ UNCHANGED << batch_frame, results, printed >>

IsFinished(t) == t[1] \notin {"queued", "decoded"}

\* main.rs 56: Reader::open(file)?.decode()?
TaskOpenDecode(f) ==
    /\ main_pc = "map"
    /\ task[f] = << "queued" >>
    /\ IF disk[f].kind = "image"
       THEN task' = [task EXCEPT ![f] = << "decoded" >>]
       ELSE \E step \in {"open", "decode"} :
                task' = [task EXCEPT ![f] = << "Err", step >>]
    /\ UNCHANGED << batch_frame, files, results, printed, main_pc >>

\* main.rs 57-102: the new size, the offsets (whose subtraction panics in a
\* build with overflow checks), the overlay and the save, which may fail.
TaskComputeSave(f) ==
    /\ main_pc = "map"
    /\ task[f] = << "decoded" >>
    /\ IF /\ offsets_underflow(disk[f].width, disk[f].height, border)
          /\ overflow_checks
       THEN task' = [task EXCEPT ![f] = << "panicked" >>]
       ELSE \E r \in { << "Ok" >>, << "Err", "save" >> } :
                task' = [task EXCEPT ![f] = r]
    /\ UNCHANGED << batch_frame, files, results, printed, main_pc >>

\* main.rs 38-41: collect() returns once every task has returned.
MainCollect ==
    /\ main_pc = "map"
    /\ \A f \in files : IsFinished(task[f]) /\ task[f] # << "panicked" >>
    /\ results' = { << f, task[f] >> : f \in files }
    /\ main_pc' = "report"
    /\ UNCHANGED << batch_frame, files, task, printed >>

\* A task panicked: rayon waits for the tasks that are running and resumes
\* the panic in main, which unwinds; nothing is collected or printed.
MainPanic ==
    /\ main_pc = "map"
    /\ \E f \in files : task[f] = << "panicked" >>
    /\ \A f \in files : task[f] # << "decoded" >>
    /\ main_pc' = "panicked"
    /\ UNCHANGED << batch_frame, files, task, results, printed >>

\* main.rs 43-45 and 48-53: one line per result, in any order.
ReportResult(r) ==
    /\ main_pc = "report"
    /\ r \in results
    /\ r \notin printed
    /\ printed' = printed \cup {r}
    /\ UNCHANGED << batch_frame, files, task, results, main_pc >>

\* main.rs 46
MainExit ==
    /\ main_pc = "report"
    /\ printed = results
    /\ main_pc' = "exit"
    /\ UNCHANGED << batch_frame, files, task, results, printed >>

BatchNext ==
    \/ MainParExtend
    \/ \E f \in PathPool : f \in files /\ TaskOpenDecode(f)
    \/ \E f \in PathPool : f \in files /\ TaskComputeSave(f)
    \/ MainCollect
    \/ MainPanic
    \/ \E r \in results : ReportResult(r)
    \/ MainExit

SpecBatch == BatchInit /\ [][BatchNext]_vars

BatchEnded == main_pc \in {"exit", "panicked"}

\* C6: when the batch has ended, every path of the command line has exactly
\* one result: an error if its open, decode or save failed, a success
\* otherwise.
C6_FailureIsolation ==
    BatchEnded =>
        \A f \in Range(args_files) :
            /\ Cardinality({ r \in results : r[1] = f }) = 1
            /\ \A r \in results :
                  r[1] = f =>
                      IF task[f][1] = "Err" THEN r[2][1] = "Err"
                                            ELSE r[2] = << "Ok" >>

\* C7: no line is printed before every task has finished, and the batch
\* does not end before the result of every path has been printed.
C7_BarrierThenReport ==
    /\ printed # {} => \A f \in files : IsFinished(task[f])
    /\ BatchEnded => \A f \in files : \E r \in printed : r[1] = f

=============================================================================
